---- MODULE Spec2Model ----
(***************************************************************************)
(* WeeWX Prometheus exporter (src/src/prom_export.py).                     *)
(*                                                                         *)
(* PrometheusService.new_loop_packet runs on the engine's thread, one      *)
(* packet at a time.  The HTTP server started in __init__ serves the       *)
(* registry from its own thread, so a scrape can fall between any two      *)
(* statements of new_loop_packet that touch the registry.  The handler is  *)
(* therefore modelled statement by statement: pc is the statement the      *)
(* engine thread executes next.                                            *)
(***************************************************************************)
EXTENDS Integers, Sequences, FiniteSets, TLC

\* ------------------------------------------------------------------ bounds
\* Packet values are drawn from 0..MaxValue (plus None).
MaxValue == 1
\* A packet carries at most MaxFields fields.
MaxFields == 2

\* ------------------------------------------------------ the mapping table
\* source field name :> <<prom_name, description>>
WEEWX_TO_PROMETHEUS_MAPPING ==
    ("a3" :> <<"weewx_ozone", "Ozone (ppb)">>)
    @@ ("altimeter" :> <<"weewx_altimeter", "Altimeter pressure in inHg or hPa">>)
    @@ ("appTemp" :> <<"weewx_apparent_temperature_celsius", "Apparent temperature (°F/°C)">>)
    @@ ("appTemp1" :> <<"weewx_apparent_temperature_1", "Apparent Temperature Sensor 1 (°F/°C)">>)
    @@ ("barometer" :> <<"weewx_barometer", "Barometric pressure in inHg or hPa">>)
    @@ ("batteryStatus2" :> <<"weewx_battery_status_2", "Battery Status for Sensor 2">>)
    @@ ("batteryStatus3" :> <<"weewx_battery_status_3", "Battery Status for Sensor 3">>)
    @@ ("batteryStatus4" :> <<"weewx_battery_status_4", "Battery Status for Sensor 4">>)
    @@ ("batteryStatus5" :> <<"weewx_battery_status_5", "Battery Status for Sensor 5">>)
    @@ ("batteryStatus6" :> <<"weewx_battery_status_6", "Battery Status for Sensor 6">>)
    @@ ("batteryStatus7" :> <<"weewx_battery_status_7", "Battery Status for Sensor 7">>)
    @@ ("batteryStatus8" :> <<"weewx_battery_status_8", "Battery Status for Sensor 8">>)
    @@ ("cloudbase" :> <<"weewx_cloudbase_meters", "Estimated cloud base height in meters">>)
    @@ ("co" :> <<"weewx_carbon_monoxide", "Carbon Monoxide (ppm)">>)
    @@ ("co2" :> <<"weewx_carbon_dioxide", "Carbon Dioxide (ppm)">>)
    @@ ("consBatteryVoltage" :> <<"weewx_console_battery_voltage", "Console battery voltage in volts">>)
    @@ ("dateTime" :> <<"weewx_datetime_seconds", "UNIX timestamp of the WeeWX loop packet">>)
    @@ ("dayET" :> <<"weewx_day_et", "Evapotranspiration for the current day in inches or mm">>)
    @@ ("dayRain" :> <<"weewx_day_rain", "Rain amount for the current day in inches or mm">>)
    @@ ("dewpoint" :> <<"weewx_dewpoint", "Dew point temperature (°F/°C)">>)
    @@ ("dewpoint1" :> <<"weewx_dewpoint_1", "Dewpoint Sensor 1 (°F/°C)">>)
    @@ ("ET" :> <<"weewx_evapotranspiration", "Evapotranspiration in inches or millimeters">>)
    @@ ("extraAlarm1" :> <<"weewx_extra_alarm_1", "Extra alarm 1 status">>)
    @@ ("extraAlarm2" :> <<"weewx_extra_alarm_2", "Extra alarm 2 status">>)
    @@ ("extraAlarm3" :> <<"weewx_extra_alarm_3", "Extra alarm 3 status">>)
    @@ ("extraAlarm4" :> <<"weewx_extra_alarm_4", "Extra alarm 4 status">>)
    @@ ("extraAlarm5" :> <<"weewx_extra_alarm_5", "Extra alarm 5 status">>)
    @@ ("extraAlarm6" :> <<"weewx_extra_alarm_6", "Extra alarm 6 status">>)
    @@ ("extraAlarm7" :> <<"weewx_extra_alarm_7", "Extra alarm 7 status">>)
    @@ ("extraAlarm8" :> <<"weewx_extra_alarm_8", "Extra alarm 8 status">>)
    @@ ("extraHumid1" :> <<"weewx_extra_humidity_1", "Extra humidity for sensor 1 (%)">>)
    @@ ("extraHumid2" :> <<"weewx_extra_humidity_2", "Extra Humidity Sensor 2 (%)">>)
    @@ ("extraHumid3" :> <<"weewx_extra_humidity_3", "Extra Humidity Sensor 3 (%)">>)
    @@ ("extraHumid4" :> <<"weewx_extra_humidity_4", "Extra Humidity Sensor 4 (%)">>)
    @@ ("extraHumid5" :> <<"weewx_extra_humidity_5", "Extra Humidity Sensor 5 (%)">>)
    @@ ("extraHumid6" :> <<"weewx_extra_humidity_6", "Extra Humidity Sensor 6 (%)">>)
    @@ ("extraHumid7" :> <<"weewx_extra_humidity_7", "Extra Humidity Sensor 7 (%)">>)
    @@ ("extraHumid8" :> <<"weewx_extra_humidity_8", "Extra Humidity Sensor 8 (%)">>)
    @@ ("extraTemp1" :> <<"weewx_extra_temperature_1", "Extra temperature for sensor 1 (°F/°C)">>)
    @@ ("extraTemp2" :> <<"weewx_extra_temperature_2", "Extra Temperature Sensor 2 (°F/°C)">>)
    @@ ("extraTemp3" :> <<"weewx_extra_temperature_3", "Extra Temperature Sensor 3 (°F/°C)">>)
    @@ ("extraTemp4" :> <<"weewx_extra_temperature_4", "Extra Temperature Sensor 4 (°F/°C)">>)
    @@ ("extraTemp5" :> <<"weewx_extra_temperature_5", "Extra Temperature Sensor 5 (°F/°C)">>)
    @@ ("extraTemp6" :> <<"weewx_extra_temperature_6", "Extra Temperature Sensor 6 (°F/°C)">>)
    @@ ("extraTemp7" :> <<"weewx_extra_temperature_7", "Extra Temperature Sensor 7 (°F/°C)">>)
    @@ ("extraTemp8" :> <<"weewx_extra_temperature_8", "Extra Temperature Sensor 8 (°F/°C)">>)
    @@ ("forecastIcon" :> <<"weewx_forecast_icon", "Forecast icon code">>)
    @@ ("forecastRule" :> <<"weewx_forecast_rule", "Forecast rule code">>)
    @@ ("hail" :> <<"weewx_hail", "Hail in number of hailstones">>)
    @@ ("hailRate" :> <<"weewx_hail_rate", "Hail rate in number of hailstones per hour">>)
    @@ ("heatindex" :> <<"weewx_heat_index", "Heat index temperature (°F/°C)">>)
    @@ ("heatindex1" :> <<"weewx_heat_index_1", "Heat Index Sensor 1 (°F/°C)">>)
    @@ ("heatingTemp" :> <<"weewx_heating_temperature", "Heating temperature (°F/°C)">>)
    @@ ("heatingVoltage" :> <<"weewx_heating_voltage", "Heating voltage in volts">>)
    @@ ("humidex" :> <<"weewx_humidex_celsius", "Humidex temperature (°F/°C)">>)
    @@ ("humidex1" :> <<"weewx_humidex_1", "Humidex Sensor 1 (°F/°C)">>)
    @@ ("inDewpoint" :> <<"weewx_indoor_dewpoint_celsius", "Indoor dewpoint temperature (°F/°C)">>)
    @@ ("inHumidity" :> <<"weewx_indoor_humidity", "Indoor relative humidity (%)">>)
    @@ ("insideAlarm" :> <<"weewx_inside_alarm", "Inside alarm status">>)
    @@ ("insolation" :> <<"weewx_insolation", "Insolation in Langley units (calories per square centimeter)">>)
    @@ ("inTemp" :> <<"weewx_indoor_temperature", "Indoor temperature (°F/°C)">>)
    @@ ("inTempBatteryStatus" :> <<"weewx_indoor_temperature_battery_status", "Battery status of the indoor temperature sensor">>)
    @@ ("interval" :> <<"weewx_interval", "Archive interval in minutes">>)
    @@ ("leafTemp1" :> <<"weewx_leaf_temperature_1", "Leaf temperature for sensor 1 (°F/°C)">>)
    @@ ("leafTemp2" :> <<"weewx_leaf_temperature_2", "Leaf temperature for sensor 2 (°F/°C)">>)
    @@ ("leafWet1" :> <<"weewx_leaf_wetness_1", "Leaf wetness for sensor 1">>)
    @@ ("leafWet2" :> <<"weewx_leaf_wetness_2", "Leaf wetness for sensor 2">>)
    @@ ("lightning_distance" :> <<"weewx_lightning_distance", "Lightning Distance (km/miles)">>)
    @@ ("lightning_disturber_count" :> <<"weewx_lightning_disturber_count", "Lightning Disturber Count">>)
    @@ ("lightning_energy" :> <<"weewx_lightning_energy", "Lightning Energy">>)
    @@ ("lightning_noise_count" :> <<"weewx_lightning_noise_count", "Lightning Noise Count">>)
    @@ ("lightning_strike_count" :> <<"weewx_lightning_strike_count", "Lightning Strike Count">>)
    @@ ("luminosity" :> <<"weewx_luminosity", "Luminosity (lux)">>)
    @@ ("monthET" :> <<"weewx_month_et", "Evapotranspiration for the current month in inches or mm">>)
    @@ ("monthRain" :> <<"weewx_month_rain", "Rain amount for the current month in inches or mm">>)
    @@ ("nh3" :> <<"weewx_ammonia", "Ammonia (ppm)">>)
    @@ ("no2" :> <<"weewx_nitrogen_dioxide", "Nitrogen Dioxide (ppm)">>)
    @@ ("noise" :> <<"weewx_noise", "Noise (dB)">>)
    @@ ("outHumidity" :> <<"weewx_outdoor_humidity", "Outdoor relative humidity (%)">>)
    @@ ("outsideAlarm1" :> <<"weewx_outside_alarm_1", "Outside alarm 1 status">>)
    @@ ("outsideAlarm2" :> <<"weewx_outside_alarm_2", "Outside alarm 2 status">>)
    @@ ("outTemp" :> <<"weewx_outdoor_temperature", "Outdoor temperature (°F/°C)">>)
    @@ ("outTempBatteryStatus" :> <<"weewx_outdoor_temperature_battery_status", "Outdoor Temperature Battery Status">>)
    @@ ("pb" :> <<"weewx_lead", "Lead (ppb)">>)
    @@ ("pm1_0" :> <<"weewx_pm1_0", "Particulate Matter 1.0 (µg/m³)">>)
    @@ ("pm10_0" :> <<"weewx_pm10_0", "Particulate Matter 10.0 (µg/m³)">>)
    @@ ("pm2_5" :> <<"weewx_pm2_5", "Particulate Matter 2.5 (µg/m³)">>)
    @@ ("pressure" :> <<"weewx_pressure", "Station pressure in inHg or hPa">>)
    @@ ("radiation" :> <<"weewx_solar_radiation", "Solar radiation in Watts per square meter">>)
    @@ ("rain" :> <<"weewx_rain", "Rainfall since the last archive record in inches or millimeters">>)
    @@ ("rainAlarm" :> <<"weewx_rain_alarm", "Rain alarm status">>)
    @@ ("rainBatteryStatus" :> <<"weewx_rain_battery_status", "Battery status of the rain sensor">>)
    @@ ("rainRate" :> <<"weewx_rain_rate", "Rain rate in inches per hour or millimeters per hour">>)
    @@ ("referenceVoltage" :> <<"weewx_reference_voltage", "Reference voltage in volts">>)
    @@ ("rxCheckPercent" :> <<"weewx_rx_check_percent", "Percentage of radio checks received by the console">>)
    @@ ("signal2" :> <<"weewx_signal_strength_2", "Signal Strength for Sensor 2">>)
    @@ ("signal3" :> <<"weewx_signal_strength_3", "Signal Strength for Sensor 3">>)
    @@ ("signal4" :> <<"weewx_signal_strength_4", "Signal Strength for Sensor 4">>)
    @@ ("signal5" :> <<"weewx_signal_strength_5", "Signal Strength for Sensor 5">>)
    @@ ("signal6" :> <<"weewx_signal_strength_6", "Signal Strength for Sensor 6">>)
    @@ ("signal7" :> <<"weewx_signal_strength_7", "Signal Strength for Sensor 7">>)
    @@ ("signal8" :> <<"weewx_signal_strength_8", "Signal Strength for Sensor 8">>)
    @@ ("snowBatteryStatus" :> <<"weewx_snow_battery_status", "Snow Battery Status">>)
    @@ ("snowDepth" :> <<"weewx_snow_depth", "Snow Depth (in/cm)">>)
    @@ ("snowMoisture" :> <<"weewx_snow_moisture", "Snow Moisture (%)">>)
    @@ ("snowRate" :> <<"weewx_snow_rate", "Snow Rate (in/hr or cm/hr)">>)
    @@ ("so2" :> <<"weewx_sulfur_dioxide", "Sulfur Dioxide (ppb)">>)
    @@ ("soilLeafAlarm1" :> <<"weewx_soil_leaf_alarm_1", "Soil/leaf alarm 1 status">>)
    @@ ("soilLeafAlarm2" :> <<"weewx_soil_leaf_alarm_2", "Soil/leaf alarm 2 status">>)
    @@ ("soilLeafAlarm3" :> <<"weewx_soil_leaf_alarm_3", "Soil/leaf alarm 3 status">>)
    @@ ("soilLeafAlarm4" :> <<"weewx_soil_leaf_alarm_4", "Soil/leaf alarm 4 status">>)
    @@ ("soilLeafBatteryStatus" :> <<"weewx_soil_leaf_battery_status", "Battery status for the soil/leaf station (0: Ok, 1: Low)">>)
    @@ ("soilMoist1" :> <<"weewx_soil_moisture_1", "Soil moisture for sensor 1 in centibars">>)
    @@ ("soilMoist2" :> <<"weewx_soil_moisture_2", "Soil moisture for sensor 2 in centibars">>)
    @@ ("soilMoist3" :> <<"weewx_soil_moisture_3", "Soil moisture for sensor 3 in centibars">>)
    @@ ("soilMoist4" :> <<"weewx_soil_moisture_4", "Soil moisture for sensor 4 in centibars">>)
    @@ ("soilTemp1" :> <<"weewx_soil_temperature_1", "Soil temperature for sensor 1 (°F/°C)">>)
    @@ ("soilTemp2" :> <<"weewx_soil_temperature_2", "Soil temperature for sensor 2 (°F/°C)">>)
    @@ ("soilTemp3" :> <<"weewx_soil_temperature_3", "Soil temperature for sensor 3 (°F/°C)">>)
    @@ ("soilTemp4" :> <<"weewx_soil_temperature_4", "Soil temperature for sensor 4 (°F/°C)">>)
    @@ ("stormRain" :> <<"weewx_storm_rain", "Storm rain amount in inches or mm">>)
    @@ ("stormStart" :> <<"weewx_storm_start", "Storm start time in seconds since the epoch">>)
    @@ ("sunrise" :> <<"weewx_sunrise", "Sunrise time in seconds since the epoch">>)
    @@ ("sunset" :> <<"weewx_sunset", "Sunset time in seconds since the epoch">>)
    @@ ("sunshine" :> <<"weewx_sunshine", "Sunshine in minutes">>)
    @@ ("supplyVoltage" :> <<"weewx_supply_voltage", "Supply voltage in volts">>)
    @@ ("txBatteryStatus" :> <<"weewx_tx_battery_status", "Battery status for the transmitter (0: Ok, 1: Low)">>)
    @@ ("usUnits" :> <<"weewx_us_units", "Units of measurement, 1 = US, 16 = METRIC, 17 = METRICWX">>)
    @@ ("UV" :> <<"weewx_uv_index", "Ultraviolet index">>)
    @@ ("windBatteryStatus" :> <<"weewx_wind_battery_status", "Battery status for the wind sensor (0: Ok, 1: Low)">>)
    @@ ("windchill" :> <<"weewx_windchill", "Wind chill temperature (°F/°C)">>)
    @@ ("windDir" :> <<"weewx_wind_direction", "Wind direction in degrees">>)
    @@ ("windGust" :> <<"weewx_wind_gust", "Wind gust speed in miles per hour or kilometers per hour">>)
    @@ ("windGustDir" :> <<"weewx_wind_gust_direction", "Wind gust direction in degrees">>)
    @@ ("windSpeed" :> <<"weewx_wind_speed", "Wind speed in miles per hour or kilometers per hour">>)
    @@ ("windSpeed10" :> <<"weewx_wind_speed_10", "Wind speed over the last 10 minutes in mph or m/s">>)
    @@ ("yearET" :> <<"weewx_year_et", "Evapotranspiration for the current year in inches or mm">>)
    @@ ("yearRain" :> <<"weewx_year_rain", "Rain amount for the current year in inches or mm">>)

\* The table after a maintainer has followed the module docstring and the
\* warning text ("Please add a mapping in WEEWX_TO_PROMETHEUS_MAPPING") for the
\* field unknownField, pasting the outTemp entry and leaving its target name.
EditedMapping ==
    WEEWX_TO_PROMETHEUS_MAPPING
    @@ ("unknownField" :> <<"weewx_outdoor_temperature", "Unknown field">>)

\* ------------------------------------------------------------------ values
\* Python's None; a number v of a packet is the one-element tuple <<v>>.
None == <<>>
Values == {None} \cup {<<v>> : v \in 0..MaxValue}

\* The field names packets are built from: two mapped, one unmapped.
Fields == {"outTemp", "inHumidity", "unknownField"}

\* dict.items() of a packet: a sequence of <<weewx_name, value>> pairs in
\* iteration order, every name at most once.
Packets ==
    { p \in UNION { [1..n -> Fields \X Values] : n \in 0..MaxFields } :
        \A a, b \in DOMAIN p : a # b => p[a][1] # p[b][1] }

\* An empty dict.
EmptyDict == [k \in {} |-> k]
\* The value prometheus_client gives a Gauge until set() is called.
NewGaugeValue == 0
NoGauge == "NoGauge"
NoRead == <<>>

VARIABLES
    table,         \* which mapping table the module was loaded with
    registry,      \* self.registry: series name -> [help, value]
    prom_gauges,   \* self.prom_gauges: prom_name -> gauge (its series name)
    pc,            \* engine thread: "idle", "for", "Gauge", "store", "set", "done"
    packet,        \* event.packet.items() of the packet in hand
    i,             \* position of the for loop in packet
    gauge,         \* the local variable gauge
    raised,        \* an exception left new_loop_packet
    log,           \* fields named by log.warning during this packet
    before,        \* the registry when this packet arrived
    prev_supplied, \* mapped fields the packet before this one supplied a number for
    seen,          \* mapped fields supplied with a number by any packet so far
    wrote,         \* <<prom_name, weewx_name>>: the field's value was set on the series
    observed       \* last scrape of one series while this packet is in hand

vars == <<table, registry, prom_gauges, pc, packet, i, gauge, raised, log,
          before, prev_supplied, seen, wrote, observed>>

\* WEEWX_TO_PROMETHEUS_MAPPING as the running module sees it.
Mapping == IF table = "shipped" THEN WEEWX_TO_PROMETHEUS_MAPPING ELSE EditedMapping

\* ------------------------------------------------- the code's expressions
\* A bug: the None test never fires.
IsNone_never(value) == FALSE

\* value is None
IsNone(value) == value = None

\* weewx_name in WEEWX_TO_PROMETHEUS_MAPPING
is_mapped(weewx_name) == weewx_name \in DOMAIN Mapping

\* prom_name, description = WEEWX_TO_PROMETHEUS_MAPPING[weewx_name]
lookup(weewx_name) == Mapping[weewx_name]

\* A bug: every gauge is given a registry of its own, dropping the others.
Gauge_own_registry(reg, prom_name, description) ==
    (prom_name :> [help |-> description, value |-> NewGaugeValue])

\* Gauge(prom_name, description, registry=self.registry): the new gauge is
\* registered under its name, holding NewGaugeValue.
Gauge(reg, prom_name, description) ==
    reg @@ (prom_name :> [help |-> description, value |-> NewGaugeValue])

\* A bug: gauge.inc(value) in place of gauge.set(value).
gauge_inc(reg, g, v) == [reg EXCEPT ![g].value = @ + v]

\* gauge.set(value)
gauge_set(reg, g, v) == [reg EXCEPT ![g].value = v]

\* The fields of packet p that carry a number.
Supplied(p) == { p[k][1] : k \in { j \in DOMAIN p : p[j][2] # None } }

\* The value packet p carries for weewx_name (None when it has no such field).
ValueOf(p, weewx_name) ==
    IF \E k \in DOMAIN p : p[k][1] = weewx_name
    THEN p[CHOOSE k \in DOMAIN p : p[k][1] = weewx_name][2]
    ELSE None

weewx_name == packet[i][1]
value == packet[i][2]
prom_name == lookup(weewx_name)[1]
description == lookup(weewx_name)[2]

ghosts == <<before, prev_supplied, seen>>

\* ------------------------------------------------------------------- Init
\* The state __init__ leaves: an empty registry, an empty prom_gauges, the
\* HTTP server serving the registry, the handler bound and not running.
InitService ==
    /\ registry = EmptyDict
    /\ prom_gauges = EmptyDict
    /\ pc = "idle"
    /\ packet = <<>>
    /\ i = 1
    /\ gauge = NoGauge
    /\ raised = FALSE
    /\ log = <<>>
    /\ before = EmptyDict
    /\ prev_supplied = {}
    /\ seen = {}
    /\ wrote = {}
    /\ observed = NoRead

Init == table = "shipped" /\ InitService

InitTable == table \in {"shipped", "edited"} /\ InitService

\* ---------------------------------------------------------------- actions
\* The engine calls new_loop_packet(event): packet = event.packet.
new_loop_packet(p) ==
    /\ pc = "idle"
    /\ packet' = p
    /\ pc' = "for"
    /\ seen' = seen \cup (Supplied(p) \cap DOMAIN Mapping)
    /\ UNCHANGED <<table, registry, prom_gauges, i, gauge, raised, log, before,
                   prev_supplied, wrote, observed>>

\* A bug: an unmapped field raises (a lookup without the membership test).
warn_unmapped_raises ==
    /\ raised' = TRUE
    /\ pc' = "done"
    /\ UNCHANGED <<i, gauge, log>>

\* A bug: the unmapped field is passed over without the warning.
warn_unmapped_silent ==
    /\ i' = i + 1
    /\ UNCHANGED <<pc, gauge, raised, log>>

\* else: log.warning(...), then on to the next field.
warn_unmapped ==
    /\ log' = Append(log, weewx_name)
    /\ i' = i + 1
    /\ UNCHANGED <<pc, gauge, raised>>

\* One turn of the for loop up to the point where it touches the registry:
\* the None test, the table lookup, the prom_gauges test.
for_items ==
    /\ pc = "for"
    /\ IF i > Len(packet)
       THEN /\ pc' = "done"
            /\ observed' = NoRead
            /\ UNCHANGED <<i, gauge, raised, log>>
       ELSE /\ UNCHANGED observed
            /\ IF IsNone(value)
               THEN i' = i + 1 /\ UNCHANGED <<pc, gauge, raised, log>>
               ELSE IF is_mapped(weewx_name)
               THEN IF prom_name \notin DOMAIN prom_gauges
                    THEN pc' = "Gauge" /\ UNCHANGED <<i, gauge, raised, log>>
                    ELSE /\ gauge' = prom_gauges[prom_name]
                         /\ pc' = "set"
                         /\ UNCHANGED <<i, raised, log>>
               ELSE warn_unmapped
    /\ UNCHANGED <<table, registry, prom_gauges, packet, ghosts, wrote>>

\* gauge = Gauge(prom_name, description, registry=self.registry).  The
\* registry refuses a name it already holds (ValueError).
create_gauge ==
    /\ pc = "Gauge"
    /\ IF prom_name \in DOMAIN registry
       THEN /\ raised' = TRUE
            /\ pc' = "done"
            /\ UNCHANGED <<registry, gauge>>
       ELSE /\ registry' = Gauge(registry, prom_name, description)
            /\ gauge' = prom_name
            /\ pc' = "store"
            /\ UNCHANGED raised
    /\ UNCHANGED <<table, prom_gauges, packet, i, log, ghosts, wrote, observed>>

\* A bug: gauge.set(value) sits in the else branch, so a new gauge is stored
\* and left at its initial value.
store_gauge_no_set ==
    /\ pc = "store"
    /\ prom_gauges' = (prom_name :> gauge) @@ prom_gauges
    /\ pc' = "for"
    /\ i' = i + 1
    /\ gauge' = NoGauge
    /\ UNCHANGED <<table, registry, packet, raised, log, ghosts, wrote, observed>>

\* A bug: the new gauge is never put into prom_gauges.
store_gauge_forgotten ==
    /\ pc = "store"
    /\ pc' = "set"
    /\ UNCHANGED <<table, registry, prom_gauges, packet, i, gauge, raised, log, ghosts,
                   wrote, observed>>

\* self.prom_gauges[prom_name] = gauge
store_gauge ==
    /\ pc = "store"
    /\ prom_gauges' = (prom_name :> gauge) @@ prom_gauges
    /\ pc' = "set"
    /\ UNCHANGED <<table, registry, packet, i, gauge, raised, log, ghosts, wrote,
                   observed>>

\* gauge.set(value): float(value) raises for a value that is no number.
set_gauge ==
    /\ pc = "set"
    /\ IF IsNone(value)
       THEN /\ raised' = TRUE
            /\ pc' = "done"
            /\ UNCHANGED <<registry, i, wrote>>
       ELSE /\ registry' = gauge_set(registry, gauge, value[1])
            /\ wrote' = wrote \cup {<<gauge, weewx_name>>}
            /\ i' = i + 1
            /\ pc' = "for"
            /\ UNCHANGED raised
    /\ gauge' = NoGauge
    /\ UNCHANGED <<table, prom_gauges, packet, log, ghosts, observed>>

\* new_loop_packet is over (the loop ran out, or an exception left it) and
\* control is back in the engine: the packet and the locals are gone, and the
\* registry as it stands is what the next packet will find.
return_to_engine ==
    /\ pc = "done"
    /\ pc' = "idle"
    /\ packet' = <<>>
    /\ i' = 1
    /\ gauge' = NoGauge
    /\ raised' = FALSE
    /\ log' = <<>>
    /\ before' = registry
    /\ prev_supplied' = Supplied(packet) \cap DOMAIN Mapping
    /\ observed' = NoRead
    /\ UNCHANGED <<table, registry, prom_gauges, seen, wrote>>

\* The series names a scrape can ask about in this model.
SeriesNames == { WEEWX_TO_PROMETHEUS_MAPPING[f][1] :
                   f \in Fields \cap DOMAIN WEEWX_TO_PROMETHEUS_MAPPING }

\* The HTTP server thread reads one series of the registry while a packet is
\* in hand: <<name, <<>>>> when it is not registered, else <<name, <<value>>>>.
scrape(n) ==
    /\ pc \notin {"idle", "done"}
    /\ observed' = <<n, IF n \in DOMAIN registry THEN <<registry[n].value>> ELSE <<>> >>
    /\ UNCHANGED <<table, registry, prom_gauges, pc, packet, i, gauge, raised, log,
                   ghosts, wrote>>

Next ==
    \/ \E p \in Packets : new_loop_packet(p)
    \/ for_items
    \/ create_gauge
    \/ store_gauge
    \/ set_gauge
    \/ return_to_engine
    \/ \E n \in SeriesNames : scrape(n)

Spec == Init /\ [][Next]_vars

SpecTable == InitTable /\ [][Next]_vars

\* ------------------------------------------------------------- properties
\* What the properties read of the table and of the packet in hand.
Target(f) == Mapping[f][1]
IsNumber(k) == packet[k][2] # None
IsMappedAt(k) == packet[k][1] \in DOMAIN Mapping
Finished == pc = "done"
\* How often log.warning named field f during this packet.
Warnings(f) == Cardinality({ k \in DOMAIN log : log[k] = f })
\* What a scrape of series n shows in registry reg.
Shown(reg, n) == IF n \in DOMAIN reg THEN <<reg[n].value>> ELSE <<>>

\* C1: when the packet before this one and this packet both supplied a number
\* for a mapped field, then once this packet is processed the field's gauge
\* holds this packet's number.
C1_LastWriteWins ==
    Finished =>
        \A f \in prev_supplied :
            ValueOf(packet, f) # None =>
                /\ Target(f) \in DOMAIN registry
                /\ registry[Target(f)].value = ValueOf(packet, f)[1]

C1_Witness ==
    /\ Finished
    /\ \E f \in prev_supplied :
        /\ ValueOf(packet, f) # None
        /\ Target(f) \in DOMAIN before
        /\ before[Target(f)].value # ValueOf(packet, f)[1]
        /\ registry[Target(f)].value = ValueOf(packet, f)[1]

\* C2: while the loop is at a mapped field whose value is None, no step
\* registers a gauge, adds to prom_gauges or changes any gauge's value.
C2_NoneLeavesGaugesAlone ==
    [][ ( /\ pc \in {"for", "Gauge", "store", "set"}
          /\ i <= Len(packet)
          /\ ~IsNumber(i)
          /\ IsMappedAt(i) )
        => (registry' = registry /\ prom_gauges' = prom_gauges) ]_vars

C2_Witness ==
    /\ Finished
    /\ \E k \in DOMAIN packet :
        /\ ~IsNumber(k)
        /\ IsMappedAt(k)
        /\ Target(packet[k][1]) \in DOMAIN before
        /\ before[Target(packet[k][1])].value # NewGaugeValue
        /\ registry = before

\* C3: a packet with an unmapped field is processed to the end without an
\* exception, and every mapped field of it that carries a number has its
\* gauge holding that number, wherever the unmapped field stands.
C3_UnmappedDoesNotInterrupt ==
    (Finished /\ \E u \in DOMAIN packet : ~IsMappedAt(u)) =>
        /\ ~raised
        /\ \A k \in DOMAIN packet :
            (IsMappedAt(k) /\ IsNumber(k)) =>
                /\ Target(packet[k][1]) \in DOMAIN registry
                /\ registry[Target(packet[k][1])].value = packet[k][2][1]

C3_Witness ==
    /\ Finished
    /\ Len(packet) = 2
    /\ ~IsMappedAt(1) /\ IsNumber(1)
    /\ IsMappedAt(2) /\ IsNumber(2)
    /\ Target(packet[2][1]) \in DOMAIN registry
    /\ registry[Target(packet[2][1])].value = packet[2][2][1]
    /\ registry # before

\* C4: a mapped field that had no gauge when the packet arrived and carries
\* the number v has, once the packet is processed, its series in the
\* registry (which holds one series per name) with value v and the
\* description of the mapping table.
C4_FirstObservationCreates ==
    Finished =>
        \A k \in DOMAIN packet :
            (IsMappedAt(k) /\ IsNumber(k) /\ Target(packet[k][1]) \notin DOMAIN before) =>
                /\ Target(packet[k][1]) \in DOMAIN registry
                /\ registry[Target(packet[k][1])] =
                       [help |-> Mapping[packet[k][1]][2], value |-> packet[k][2][1]]

C4_Witness ==
    /\ Finished
    /\ \E k \in DOMAIN packet :
        /\ IsMappedAt(k) /\ IsNumber(k)
        /\ packet[k][2][1] # NewGaugeValue
        /\ Target(packet[k][1]) \notin DOMAIN before
        /\ registry[Target(packet[k][1])] =
               [help |-> Mapping[packet[k][1]][2], value |-> packet[k][2][1]]

\* C5: no step takes a series out of the registry or a key out of
\* prom_gauges.
C5_GaugeNeverRemoved ==
    [][ /\ DOMAIN registry \subseteq DOMAIN registry'
        /\ DOMAIN prom_gauges \subseteq DOMAIN prom_gauges' ]_vars

\* A gauge outlives a packet that has an unmapped field and nothing for it.
C5_Witness ==
    /\ Finished
    /\ \E u \in DOMAIN packet : ~IsMappedAt(u) /\ IsNumber(u)
    /\ \E n \in DOMAIN before :
        /\ \A k \in DOMAIN packet :
               (IsMappedAt(k) /\ IsNumber(k)) => Target(packet[k][1]) # n
        /\ n \in DOMAIN registry
        /\ n \in DOMAIN prom_gauges

\* C6: a scrape made while a packet is in hand shows, for the series it
\* reads, either what the registry showed when the packet arrived or the
\* number the packet carries for the field mapped to that series.
C6_ScrapeSeesBeforeOrAfter ==
    observed # NoRead =>
        \/ observed[2] = Shown(before, observed[1])
        \/ \E k \in DOMAIN packet :
            /\ IsMappedAt(k) /\ IsNumber(k)
            /\ Target(packet[k][1]) = observed[1]
            /\ observed[2] = packet[k][2]

\* Whether two source keys of a table share a target name.
ShippedTargetsDistinct ==
    \A a, b \in DOMAIN WEEWX_TO_PROMETHEUS_MAPPING :
        a # b => WEEWX_TO_PROMETHEUS_MAPPING[a][1] # WEEWX_TO_PROMETHEUS_MAPPING[b][1]
EditedTargetsDistinct ==
    \A a, b \in DOMAIN EditedMapping :
        a # b => EditedMapping[a][1] # EditedMapping[b][1]
TargetsDistinct == IF table = "shipped" THEN ShippedTargetsDistinct ELSE EditedTargetsDistinct

\* C7: with a table in which two source keys share a target name the
\* service never gets to process a packet: the handler never starts and no
\* gauge is ever registered.
C7_DuplicateTargetFatalAtLoad ==
    ~TargetsDistinct =>
        /\ pc = "idle"
        /\ registry = EmptyDict
        /\ prom_gauges = EmptyDict

\* C8: distinct source fields of WEEWX_TO_PROMETHEUS_MAPPING have distinct
\* target names, and no series is ever set from two different source fields.
C8_TargetNamesDistinct ==
    /\ ShippedTargetsDistinct
    /\ \A a, b \in Fields \cap DOMAIN Mapping : a # b => lookup(a)[1] # lookup(b)[1]
    /\ \A p, q \in wrote : p[1] = q[1] => p[2] = q[2]

C8_Witness ==
    /\ <<"weewx_outdoor_temperature", "outTemp">> \in wrote
    /\ <<"weewx_indoor_humidity", "inHumidity">> \in wrote

\* C9 as claimed: once a packet is processed, every field of it that is not
\* in the table was named by exactly one warning, and no mapped field was.
C9_OneWarningPerUnmappedField ==
    Finished =>
        \A k \in DOMAIN packet :
            Warnings(packet[k][1]) = IF IsMappedAt(k) THEN 0 ELSE 1

\* C9 amended: once a packet is processed, every field of it that is not in
\* the table and carries a number was named by exactly one warning, and no
\* other field of it (mapped, or carrying None) was named by any.
C9_OneWarningPerUnmappedNumber ==
    Finished =>
        /\ \A k \in DOMAIN packet :
            Warnings(packet[k][1]) = IF ~IsMappedAt(k) /\ IsNumber(k) THEN 1 ELSE 0
        /\ \A j \in DOMAIN log : \E k \in DOMAIN packet : packet[k][1] = log[j]

C9_Witness ==
    /\ Finished
    /\ Len(packet) = 2
    /\ IsMappedAt(1) /\ IsNumber(1)
    /\ ~IsMappedAt(2) /\ IsNumber(2)
    /\ log = <<packet[2][1]>>

\* C10: between packets, the keys of prom_gauges are the series of the
\* registry, and these are the target names of the mapped fields that some
\* packet so far supplied with a number (none right after __init__).
C10_GaugesAreTheFieldsSeen ==
    pc \in {"idle", "done"} =>
        /\ DOMAIN prom_gauges = DOMAIN registry
        /\ DOMAIN registry = { Target(f) : f \in seen }

C10_Witness ==
    /\ Finished
    /\ DOMAIN registry = {"weewx_outdoor_temperature"}
    /\ DOMAIN prom_gauges = {"weewx_outdoor_temperature"}
    /\ seen = {"outTemp"}
    /\ \E k \in DOMAIN packet : packet[k][1] = "inHumidity" /\ ~IsNumber(k)
    /\ prev_supplied = {"outTemp"}

====
